---- MODULE Spec2Model ----
(***************************************************************************)
(* Model of UniversalConverter32.cpp, the flat C API that lets VB6/VFP9    *)
(* hosts run the external converter "python cli.py".                       *)
(*                                                                         *)
(* C strings are sequences of one-character strings, so that lengths,      *)
(* buffer capacities, substrings and formatting are computed as the code   *)
(* computes them.  The filesystem is a function from the paths that exist  *)
(* (and can be opened) to their size in bytes.  The external tool is an    *)
(* opaque process: whether it can be spawned, what it prints, how it exits *)
(* and what it does to the output path are chosen nondeterministically.    *)
(* Memory exhaustion (std::bad_alloc) is not modelled, so the catch blocks *)
(* of ConvertDocument and TestConnection are never entered.                *)
(***************************************************************************)
EXTENDS Integers, Sequences, FiniteSets, TLC

VARIABLES
    g_lastError,   \* static char g_lastError[512], as the C string it holds
    files,         \* the filesystem: existing path |-> size in bytes
    infoBuffer,    \* the buffer the host hands to GetFileInfo, as a C string
    call,          \* the most recent call: entry point, arguments, environment
    status,        \* <<code>> returned by the most recent call, <<>> if none
    spawned,       \* the commands the most recent call passed to _popen
    terminated     \* the host process was terminated by the CRT

vars == <<g_lastError, files, infoBuffer, call, status, spawned, terminated>>

----------------------------------------------------------------------------
(* Status codes and buffer sizes *)

UC_SUCCESS == 1
UC_FAILURE == 0
UC_ERROR == -1

sizeof_g_lastError == 512
sizeof_buffer == 128

\* the null pointer: no C string is equal to it
NULL == <<"(null)">>

----------------------------------------------------------------------------
(* String literals of the source *)

MsgFailedToExecute ==
    <<"F","a","i","l","e","d"," ","t","o"," ","e","x","e","c","u","t","e"," ","P","y","t","h","o","n"," ","C","L","I">>

MsgInvalidInput ==
    <<"I","n","v","a","l","i","d"," ","i","n","p","u","t"," ","p","a","r","a","m","e","t","e","r","s">>

FmtInputNotFound ==
    <<"I","n","p","u","t"," ","f","i","l","e"," ","n","o","t"," ","f","o","u","n","d",":"," ">>

MsgOutputNotCreated ==
    <<"C","o","n","v","e","r","s","i","o","n"," ","f","a","i","l","e","d"," ","-"," ","o","u","t","p","u","t"," ","f","i","l","e"," ","n","o","t"," ","c","r","e","a","t","e","d">>

MsgCliNotFound ==
    <<"C","L","I"," ","s","c","r","i","p","t"," ","n","o","t"," ","f","o","u","n","d">>

MsgPythonNotAvailable ==
    <<"P","y","t","h","o","n"," ","n","o","t"," ","a","v","a","i","l","a","b","l","e">>

MsgBatch ==
    <<"B","a","t","c","h"," ","c","o","n","v","e","r","s","i","o","n"," ","n","o","t"," ","y","e","t"," ","i","m","p","l","e","m","e","n","t","e","d">>

MsgInvalidInfo ==
    <<"I","n","v","a","l","i","d"," ","p","a","r","a","m","e","t","e","r","s"," ","f","o","r"," ","G","e","t","F","i","l","e","I","n","f","o">>

FmtFileNotFound ==
    <<"F","i","l","e"," ","n","o","t"," ","f","o","u","n","d",":"," ">>

MsgCouldNotOpen ==
    <<"C","o","u","l","d"," ","n","o","t"," ","o","p","e","n"," ","f","i","l","e"," ","f","o","r"," ","i","n","f","o">>

FmtSizePrefix ==
    <<"S","i","z","e",":"," ">>

FmtSizeSuffix ==
    <<" ","b","y","t","e","s">>

CmdCd ==
    <<"c","d"," ","/","d"," ","\"">>

CmdPython ==
    <<"\""," ","&","&"," ","p","y","t","h","o","n"," ","c","l","i",".","p","y">>

CmdOpenQuote ==
    <<" ","\"">>

CmdQuote ==
    <<"\"">>

CmdOutFlag ==
    <<" ","-","o"," ","\"">>

CmdTypeFlag ==
    <<" ","-","t"," ">>

CmdQuiet ==
    <<" ","-","-","q","u","i","e","t"," ","2",">","&","1">>

CmdVersion ==
    <<"p","y","t","h","o","n"," ","-","-","v","e","r","s","i","o","n"," ","2",">","&","1">>

TokPython ==
    <<"P","y","t","h","o","n">>

CliPy ==
    <<"c","l","i",".","p","y">>

PathSeparators ==
    <<"\\","/">>

ModuleFileName ==
    <<"C",":","\\","u","c","\\","h","o","s","t",".","e","x","e">>

\* the format tokens the wrappers pass
pdf == <<"p","d","f">>
txt == <<"t","x","t">>
md == <<"m","d">>
docx == <<"d","o","c","x">>
html == <<"h","t","m","l">>
rtf == <<"r","t","f">>

----------------------------------------------------------------------------
(* Bounds and input sets *)

\* length of the over-long path argument
LongLen == 500

PathA == <<"i","n">>
PathB == <<"o","u","t">>
LongPath == [i \in 1..LongLen |-> "x"]

\* paths at which a file can exist
FsPaths == {PathA, PathB, CliPy}
FileSizes == {7, 12}
InputPaths == {NULL, <<>>, PathA, LongPath}
OutputPaths == {NULL, <<>>, PathB}
PathArgs == InputPaths \cup OutputPaths
\* <<inputFormat, outputFormat>>
FormatArgs == {<<NULL, NULL>>, <<pdf, <<>> >>, <<pdf, txt>>}
BufferSizes == {-1, 0, 14, 15}

OutPython == <<"P","y","t","h","o","n"," ","3",".","9">>
OutError == <<"E","r","r","o","r",":"," ","b","a","d","\n">>
\* what a spawned process prints and the exit status it ends with
ProcessRuns ==
    {[output |-> <<>>, exit |-> 0], [output |-> OutPython, exit |-> 0],
     [output |-> OutError, exit |-> 1], [output |-> OutError, exit |-> 0]}
QuietRuns == {[output |-> <<>>, exit |-> 0]}

----------------------------------------------------------------------------
(* C library and std::string operations *)

strlen(s) == Len(s)

Min(a, b) == IF a < b THEN a ELSE b

\* std::string::find: the 0-based position of the first occurrence, -1 (npos)
\* when there is none
find(s, sub) ==
    LET hits == {i \in 0..(Len(s) - Len(sub)) : SubSeq(s, i + 1, i + Len(sub)) = sub}
    IN  IF hits = {} THEN -1 ELSE CHOOSE i \in hits : \A j \in hits : i <= j

\* std::string::find_last_of: the 0-based position of the last character of s
\* that occurs in chars, -1 (npos) when there is none
find_last_of(s, chars) ==
    LET hits == {i \in 0..(Len(s) - 1) : \E k \in 1..Len(chars) : s[i + 1] = chars[k]}
    IN  IF hits = {} THEN -1 ELSE CHOOSE i \in hits : \A j \in hits : i >= j

\* strcpy_s / sprintf_s into a buffer of cap bytes: when the text and its
\* terminator do not fit, the buffer is set to the empty string and the
\* invalid parameter handler is invoked
sprintf_s(cap, text) ==
    IF Len(text) + 1 <= cap
    THEN [fits |-> TRUE, text |-> text, written |-> Len(text) + 1]
    ELSE [fits |-> FALSE, text |-> <<>>, written |-> 1]

strcpy_s(cap, text) == sprintf_s(cap, text)

Digit(d) == <<"0","1","2","3","4","5","6","7","8","9">>[d + 1]

RECURSIVE Digits(_)
Digits(n) == IF n < 10 THEN <<Digit(n)>> ELSE Digits(n \div 10) \o <<Digit(n % 10)>>

\* the %lld conversion
FormatLLD(n) == IF n < 0 THEN <<"-">> \o Digits(-n) ELSE Digits(n)

\* one fgets(buffer, sizeof(buffer), pipe): at most sizeof(buffer)-1
\* characters, stopping after a newline
fgets(stream) ==
    LET lim == Min(Len(stream), sizeof_buffer - 1)
        nl == {i \in 1..lim : stream[i] = "\n"}
        n == IF nl = {} THEN lim ELSE CHOOSE i \in nl : \A j \in nl : i <= j
    IN  SubSeq(stream, 1, n)

\* the read loop of ExecutePythonCLI
RECURSIVE ReadPipe(_, _)
ReadPipe(stream, result) ==
    IF stream = <<>> THEN result
    ELSE LET buffer == fgets(stream)
         IN  ReadPipe(SubSeq(stream, Len(buffer) + 1, Len(stream)), result \o buffer)

----------------------------------------------------------------------------
(* The environment of one call *)

\* what the spawned tool does to the path it was told to write
Effects ==
    {[kind |-> "none", size |-> 0], [kind |-> "remove", size |-> 0],
     [kind |-> "create", size |-> 12]}

\* _popen fails: nothing runs
NoProcess ==
    [spawnOk |-> FALSE, output |-> <<>>, exit |-> 0,
     effect |-> [kind |-> "none", size |-> 0], target |-> NULL]

\* the environments of a conversion whose tool is told to write target
ToolEnvs(target, runs) ==
    {NoProcess} \cup
    {[spawnOk |-> TRUE, output |-> r.output, exit |-> r.exit, effect |-> e,
      target |-> target] : r \in runs, e \in Effects}

\* the environments of the interpreter probe, which writes no file
ProbeEnvs ==
    {NoProcess} \cup
    {[spawnOk |-> TRUE, output |-> r.output, exit |-> r.exit,
      effect |-> [kind |-> "none", size |-> 0], target |-> NULL] : r \in ProcessRuns}

\* the filesystem after the spawned process has run
RunTool(fs, env) ==
    IF env.effect.kind = "create" /\ env.target \in FsPaths
    THEN [p \in DOMAIN fs \cup {env.target} |->
            IF p = env.target THEN env.effect.size ELSE fs[p]]
    ELSE IF env.effect.kind = "remove"
    THEN [p \in DOMAIN fs \ {env.target} |-> fs[p]]
    ELSE fs

----------------------------------------------------------------------------
(* Helpers of the source *)

\* std::ifstream file(filename); return file.good();
FileExists(fs, filename) == filename \in DOMAIN fs

\* runs command and returns what it printed; the exit status that _pclose
\* returns is discarded
ExecutePythonCLI(err, fs, command, env) ==
    IF ~env.spawnOk
    THEN [result |-> <<>>, err |-> strcpy_s(sizeof_g_lastError, MsgFailedToExecute).text,
          fs |-> fs]
    ELSE [result |-> ReadPipe(env.output, <<>>), err |-> err, fs |-> RunTool(fs, env)]

BuildCLICommand(inputFile, outputFile, inputFormat, outputFormat) ==
    LET dllPath == ModuleFileName
        lastSlash == find_last_of(dllPath, PathSeparators)
        dllDir == IF lastSlash # -1 THEN SubSeq(dllPath, 1, lastSlash) ELSE dllPath
    IN  CmdCd \o dllDir \o CmdPython
        \o CmdOpenQuote \o inputFile \o CmdQuote
        \o CmdOutFlag \o outputFile \o CmdQuote
        \o (IF outputFormat # NULL /\ strlen(outputFormat) > 0
            THEN CmdTypeFlag \o outputFormat ELSE <<>>)
        \o CmdQuiet

\* the result of an entry point: the status it returns (<<>> when the process
\* was terminated inside it), the last-error text, the filesystem, the
\* caller's buffer, the commands passed to _popen and the bytes written into
\* the caller's buffer
Return(code, err, fs, buf, cmds, n) ==
    [status |-> <<code>>, err |-> err, fs |-> fs, buf |-> buf, spawned |-> cmds,
     written |-> n, terminated |-> FALSE]

\* the default invalid parameter handler terminates the process
Terminate(fs, buf, cmds, n) ==
    [status |-> <<>>, err |-> <<>>, fs |-> fs, buf |-> buf, spawned |-> cmds,
     written |-> n, terminated |-> TRUE]

----------------------------------------------------------------------------
(* Entry points.  abort tells whether the invalid parameter handler          *)
(* terminates the process (the default) or returns to the caller.           *)

\* ConvertDocument as it would be if success also required the subprocess to
\* exit with status 0
ConvertDocumentChecksExit(err, fs, buf, inputFile, outputFile, inputFormat, outputFormat, env, abort) ==
    LET cleared == <<>>
    IN
    IF inputFile = NULL \/ outputFile = NULL
    THEN Return(UC_ERROR, strcpy_s(sizeof_g_lastError, MsgInvalidInput).text,
                fs, buf, <<>>, 0)
    ELSE IF ~FileExists(fs, inputFile)
    THEN LET msg == sprintf_s(sizeof_g_lastError, FmtInputNotFound \o inputFile)
         IN  IF ~msg.fits /\ abort
             THEN Terminate(fs, buf, <<>>, 0)
             ELSE Return(UC_ERROR, msg.text, fs, buf, <<>>, 0)
    ELSE LET command == BuildCLICommand(inputFile, outputFile, inputFormat, outputFormat)
             run == ExecutePythonCLI(cleared, fs, command, env)
         IN  IF FileExists(run.fs, outputFile) /\ env.exit = 0
             THEN Return(UC_SUCCESS, run.err, run.fs, buf, <<command>>, 0)
             ELSE Return(UC_FAILURE,
                         IF strlen(run.err) = 0
                         THEN strcpy_s(sizeof_g_lastError, MsgOutputNotCreated).text
                         ELSE run.err,
                         run.fs, buf, <<command>>, 0)

ConvertDocument(err, fs, buf, inputFile, outputFile, inputFormat, outputFormat, env, abort) ==
    LET cleared == <<>>
    IN
    IF inputFile = NULL \/ outputFile = NULL
    THEN Return(UC_ERROR, strcpy_s(sizeof_g_lastError, MsgInvalidInput).text,
                fs, buf, <<>>, 0)
    ELSE IF ~FileExists(fs, inputFile)
    THEN LET msg == sprintf_s(sizeof_g_lastError, FmtInputNotFound \o inputFile)
         IN  IF ~msg.fits /\ abort
             THEN Terminate(fs, buf, <<>>, 0)
             ELSE Return(UC_ERROR, msg.text, fs, buf, <<>>, 0)
    ELSE LET command == BuildCLICommand(inputFile, outputFile, inputFormat, outputFormat)
             run == ExecutePythonCLI(cleared, fs, command, env)
         IN  IF FileExists(run.fs, outputFile)
             THEN Return(UC_SUCCESS, run.err, run.fs, buf, <<command>>, 0)
             ELSE Return(UC_FAILURE,
                         IF strlen(run.err) = 0
                         THEN strcpy_s(sizeof_g_lastError, MsgOutputNotCreated).text
                         ELSE run.err,
                         run.fs, buf, <<command>>, 0)

\* TestConnection as it would be without the check for the entry script
TestConnectionSkipsScript(err, fs, buf, env) ==
    LET cleared == <<>>
        command == CmdVersion
        run == ExecutePythonCLI(cleared, fs, command, env)
    IN  IF find(run.result, TokPython) # -1
        THEN Return(UC_SUCCESS, run.err, run.fs, buf, <<command>>, 0)
        ELSE Return(UC_FAILURE, strcpy_s(sizeof_g_lastError, MsgPythonNotAvailable).text,
                    run.fs, buf, <<command>>, 0)

TestConnection(err, fs, buf, env) ==
    LET cleared == <<>>
        command == CmdVersion
        run == ExecutePythonCLI(cleared, fs, command, env)
    IN  IF find(run.result, TokPython) # -1
        THEN IF FileExists(run.fs, CliPy)
             THEN Return(UC_SUCCESS, run.err, run.fs, buf, <<command>>, 0)
             ELSE Return(UC_FAILURE, strcpy_s(sizeof_g_lastError, MsgCliNotFound).text,
                         run.fs, buf, <<command>>, 0)
        ELSE Return(UC_FAILURE, strcpy_s(sizeof_g_lastError, MsgPythonNotAvailable).text,
                    run.fs, buf, <<command>>, 0)

GetVersion == <<"3",".","1",".","0">>

GetLastError == g_lastError

\* the format pairs as they would be with a copy-and-paste slip in the last
\* wrapper
WrapperFormatsSlip ==
    [ConvertPDFToText |-> [inputFormat |-> pdf, outputFormat |-> txt],
     ConvertPDFToMarkdown |-> [inputFormat |-> pdf, outputFormat |-> md],
     ConvertDOCXToText |-> [inputFormat |-> docx, outputFormat |-> txt],
     ConvertDOCXToMarkdown |-> [inputFormat |-> docx, outputFormat |-> md],
     ConvertMarkdownToHTML |-> [inputFormat |-> md, outputFormat |-> html],
     ConvertHTMLToMarkdown |-> [inputFormat |-> html, outputFormat |-> md],
     ConvertRTFToText |-> [inputFormat |-> rtf, outputFormat |-> txt],
     ConvertRTFToMarkdown |-> [inputFormat |-> rtf, outputFormat |-> txt]]

\* the hard-coded format pair of each convenience function
WrapperFormats ==
    [ConvertPDFToText |-> [inputFormat |-> pdf, outputFormat |-> txt],
     ConvertPDFToMarkdown |-> [inputFormat |-> pdf, outputFormat |-> md],
     ConvertDOCXToText |-> [inputFormat |-> docx, outputFormat |-> txt],
     ConvertDOCXToMarkdown |-> [inputFormat |-> docx, outputFormat |-> md],
     ConvertMarkdownToHTML |-> [inputFormat |-> md, outputFormat |-> html],
     ConvertHTMLToMarkdown |-> [inputFormat |-> html, outputFormat |-> md],
     ConvertRTFToText |-> [inputFormat |-> rtf, outputFormat |-> txt],
     ConvertRTFToMarkdown |-> [inputFormat |-> rtf, outputFormat |-> md]]

WrapperNames == DOMAIN WrapperFormats

\* return ConvertDocument(inputFile, outputFile, "<in>", "<out>");
ConvertWrapper(w, err, fs, buf, inputFile, outputFile, env, abort) ==
    ConvertDocument(err, fs, buf, inputFile, outputFile,
                    WrapperFormats[w].inputFormat, WrapperFormats[w].outputFormat,
                    env, abort)

\* ConvertBatch as it would be if it validated its directories first, the way
\* ConvertDocument validates its paths
ConvertBatchValidates(err, fs, buf, inputDir, outputDir, inputFormat, outputFormat) ==
    IF inputDir = NULL \/ outputDir = NULL
    THEN Return(UC_ERROR, strcpy_s(sizeof_g_lastError, MsgInvalidInput).text,
                fs, buf, <<>>, 0)
    ELSE Return(UC_ERROR, strcpy_s(sizeof_g_lastError, MsgBatch).text, fs, buf, <<>>, 0)

ConvertBatch(err, fs, buf, inputDir, outputDir, inputFormat, outputFormat) ==
    Return(UC_ERROR, strcpy_s(sizeof_g_lastError, MsgBatch).text, fs, buf, <<>>, 0)

\* infoBuffer is NULL or the caller's buffer, whose contents are buf
GetFileInfo(err, fs, buf, filePath, infoBufferIsNull, bufferSize, abort) ==
    IF filePath = NULL \/ infoBufferIsNull \/ bufferSize <= 0
    THEN Return(UC_ERROR, strcpy_s(sizeof_g_lastError, MsgInvalidInfo).text,
                fs, buf, <<>>, 0)
    ELSE IF ~FileExists(fs, filePath)
    THEN LET msg == sprintf_s(sizeof_g_lastError, FmtFileNotFound \o filePath)
         IN  IF ~msg.fits /\ abort
             THEN Terminate(fs, buf, <<>>, 0)
             ELSE Return(UC_ERROR, msg.text, fs, buf, <<>>, 0)
    ELSE IF FileExists(fs, filePath)
    THEN LET size == fs[filePath]
             info == sprintf_s(bufferSize, FmtSizePrefix \o FormatLLD(size) \o FmtSizeSuffix)
         IN  IF ~info.fits /\ abort
             THEN Terminate(fs, info.text, <<>>, info.written)
             ELSE Return(UC_SUCCESS, err, fs, info.text, <<>>, info.written)
    ELSE Return(UC_ERROR, strcpy_s(sizeof_g_lastError, MsgCouldNotOpen).text,
                fs, buf, <<>>, 0)

----------------------------------------------------------------------------
(* State machine: the host calls the entry points one at a time *)

NoCall ==
    [op |-> "none", inputFile |-> NULL, outputFile |-> NULL,
     inputFormat |-> NULL, outputFormat |-> NULL, filePath |-> NULL,
     infoBufferIsNull |-> TRUE, bufferSize |-> 0, env |-> NoProcess,
     preIn |-> FALSE, preOut |-> FALSE, written |-> 0]

\* what the host's buffer holds when a call is made: the host refills it
\* before every call
BufInit == <<"?">>

InitialFiles ==
    {f \in UNION {[S -> FileSizes] : S \in SUBSET FsPaths} :
        \A p \in DOMAIN f \ {PathB} : f[p] = 7}

Init ==
    /\ g_lastError = <<>>
    /\ files \in InitialFiles
    /\ infoBuffer = BufInit
    /\ call = NoCall
    /\ status = <<>>
    /\ spawned = <<>>
    /\ terminated = FALSE

\* the environments a call can meet: the spawned process matters only to a
\* call that reaches _popen
EnvsOf(target, runs, probe) ==
    IF probe.spawned # <<>> THEN ToolEnvs(target, runs) ELSE {NoProcess}

\* the invalid parameter handler either terminates the process or returns;
\* the choice matters only to a call that invokes it
HandlerChoices(ifAborts, ifReturns) ==
    IF ifAborts = ifReturns THEN {FALSE} ELSE BOOLEAN

\* the call c returned (or terminated the process) with result r; the
\* environment is recorded only when the call reached _popen
Finish(c, r) ==
    /\ g_lastError' = r.err
    /\ files' = r.fs
    /\ infoBuffer' = r.buf
    /\ status' = r.status
    /\ spawned' = r.spawned
    /\ terminated' = r.terminated
    /\ call' = [c EXCEPT !.env = IF r.spawned = <<>> THEN NoProcess ELSE c.env,
                         !.written = r.written]

ConversionCall(op, inputFile, outputFile, inputFormat, outputFormat, env) ==
    [NoCall EXCEPT !.op = op, !.inputFile = inputFile, !.outputFile = outputFile,
                   !.inputFormat = inputFormat, !.outputFormat = outputFormat,
                   !.env = env,
                   !.preIn = FileExists(files, inputFile),
                   !.preOut = FileExists(files, outputFile)]

CallConvertDocument ==
    /\ ~terminated
    /\ \E inputFile \in InputPaths, outputFile \in OutputPaths, fmt \in FormatArgs :
         LET Run(env, abort) ==
                ConvertDocument(g_lastError, files, BufInit, inputFile, outputFile,
                                fmt[1], fmt[2], env, abort)
         IN  \E env \in EnvsOf(outputFile, ProcessRuns, Run(NoProcess, FALSE)),
                abort \in HandlerChoices(Run(NoProcess, TRUE), Run(NoProcess, FALSE)) :
                Finish(ConversionCall("ConvertDocument", inputFile, outputFile,
                                      fmt[1], fmt[2], env),
                       Run(env, abort))

CallConvertWrapper ==
    /\ ~terminated
    /\ \E w \in WrapperNames, inputFile \in InputPaths, outputFile \in OutputPaths :
         LET Run(env, abort) ==
                ConvertWrapper(w, g_lastError, files, BufInit, inputFile, outputFile,
                               env, abort)
         IN  \E env \in EnvsOf(outputFile, QuietRuns, Run(NoProcess, FALSE)),
                abort \in HandlerChoices(Run(NoProcess, TRUE), Run(NoProcess, FALSE)) :
                Finish(ConversionCall(w, inputFile, outputFile, NULL, NULL, env),
                       Run(env, abort))

CallTestConnection ==
    /\ ~terminated
    /\ \E env \in ProbeEnvs :
         Finish([NoCall EXCEPT !.op = "TestConnection", !.env = env],
                TestConnection(g_lastError, files, BufInit, env))

CallConvertBatch ==
    /\ ~terminated
    /\ \E inputDir \in InputPaths, outputDir \in OutputPaths, fmt \in FormatArgs :
         Finish(ConversionCall("ConvertBatch", inputDir, outputDir,
                               fmt[1], fmt[2], NoProcess),
                ConvertBatch(g_lastError, files, BufInit, inputDir, outputDir,
                             fmt[1], fmt[2]))

CallGetFileInfo ==
    /\ ~terminated
    /\ \E filePath \in PathArgs, infoBufferIsNull \in BOOLEAN,
          bufferSize \in BufferSizes :
         LET Run(abort) ==
                GetFileInfo(g_lastError, files, BufInit, filePath, infoBufferIsNull,
                            bufferSize, abort)
         IN  \E abort \in HandlerChoices(Run(TRUE), Run(FALSE)) :
                Finish([NoCall EXCEPT !.op = "GetFileInfo", !.filePath = filePath,
                                      !.infoBufferIsNull = infoBufferIsNull,
                                      !.bufferSize = bufferSize,
                                      !.preIn = FileExists(files, filePath)],
                       Run(abort))

\* the host is started again after the process was terminated: the statics
\* of the library are initialised anew, the filesystem stays
LoadLibrary ==
    /\ terminated
    /\ g_lastError' = <<>>
    /\ infoBuffer' = BufInit
    /\ call' = NoCall
    /\ status' = <<>>
    /\ spawned' = <<>>
    /\ terminated' = FALSE
    /\ UNCHANGED files

Next ==
    \/ CallConvertDocument
    \/ CallConvertWrapper
    \/ CallTestConnection
    \/ CallConvertBatch
    \/ CallGetFileInfo
    \/ LoadLibrary

Spec == Init /\ [][Next]_vars

----------------------------------------------------------------------------
(* Vocabulary of the properties *)

Contains(s, sub) == find(s, sub) # -1

IsNullOrEmpty(p) == p = NULL \/ p = <<>>

\* the most recent call passed the argument validation of ConvertDocument
ValidationPassed ==
    /\ call.inputFile # NULL
    /\ call.outputFile # NULL
    /\ call.preIn

\* what the most recent call read from the pipe
CapturedOutput == IF call.env.spawnOk THEN call.env.output ELSE <<>>

\* the result of the call c made with last-error text err, filesystem fs and
\* the given behaviour of the invalid parameter handler
ResultOf(c, err, fs, abort) ==
    IF c.op = "ConvertDocument"
    THEN ConvertDocument(err, fs, BufInit, c.inputFile, c.outputFile,
                         c.inputFormat, c.outputFormat, c.env, abort)
    ELSE IF c.op \in WrapperNames
    THEN ConvertWrapper(c.op, err, fs, BufInit, c.inputFile, c.outputFile, c.env, abort)
    ELSE IF c.op = "TestConnection"
    THEN TestConnection(err, fs, BufInit, c.env)
    ELSE IF c.op = "ConvertBatch"
    THEN ConvertBatch(err, fs, BufInit, c.inputFile, c.outputFile,
                      c.inputFormat, c.outputFormat)
    ELSE GetFileInfo(err, fs, BufInit, c.filePath, c.infoBufferIsNull,
                     c.bufferSize, abort)

----------------------------------------------------------------------------
(* C1 *)

\* C1: a ConvertDocument call whose paths are both non-null and whose input
\* path names no openable file returns ERROR, leaves a last-error text that
\* contains the input path, and passes no command to _popen.
C1_MissingInputReported ==
    (/\ call.op = "ConvertDocument"
     /\ call.inputFile # NULL
     /\ call.outputFile # NULL
     /\ ~call.preIn)
    => /\ status = <<UC_ERROR>>
       /\ Contains(GetLastError, call.inputFile)
       /\ spawned = <<>>

----------------------------------------------------------------------------
(* C2 *)

\* C2: a ConvertDocument call that returns, and whose input path or output
\* path is null or empty, returns ERROR and passes no command to _popen.
C2_NullOrEmptyPathIsError ==
    (/\ call.op = "ConvertDocument"
     /\ ~terminated
     /\ IsNullOrEmpty(call.inputFile) \/ IsNullOrEmpty(call.outputFile))
    => /\ status = <<UC_ERROR>>
       /\ spawned = <<>>

----------------------------------------------------------------------------
(* C3 *)

\* C3: once validation has passed, ConvertDocument returns SUCCESS exactly
\* when the output path exists after the subprocess step, and FAILURE
\* otherwise, whatever the process printed and however it exited; so a run in
\* which the tool created the output file returns SUCCESS.
C3_StatusFromOutputFileOnly ==
    (call.op = "ConvertDocument" /\ ValidationPassed)
    => /\ status \in {<<UC_SUCCESS>>, <<UC_FAILURE>>}
       /\ status = <<UC_SUCCESS>> <=> FileExists(files, call.outputFile)
       /\ (call.env.effect.kind = "create" /\ call.outputFile \in FsPaths)
            => status = <<UC_SUCCESS>>

\* the tool printed an error text, exited with status 1, and created the
\* output file, which did not exist before
C3_Witness ==
    /\ call.op = "ConvertDocument"
    /\ ValidationPassed
    /\ ~call.preOut
    /\ call.env.spawnOk
    /\ call.env.effect.kind = "create"
    /\ call.env.output = OutError
    /\ call.env.exit = 1
    /\ status = <<UC_SUCCESS>>

----------------------------------------------------------------------------
(* C4 *)

\* C4: when validation passes and the tool runs and exits without creating
\* the output file, ConvertDocument returns FAILURE with a non-empty
\* last-error text, also when the output path existed before the call.
C4_NoOutputIsFailure ==
    (/\ call.op = "ConvertDocument"
     /\ ValidationPassed
     /\ call.env.spawnOk
     /\ call.env.effect.kind # "create")
    => /\ status = <<UC_FAILURE>>
       /\ GetLastError # <<>>

----------------------------------------------------------------------------
(* C5 *)

\* C5: TestConnection returns SUCCESS exactly when the captured output of
\* the probe contains "Python" and cli.py exists; otherwise it returns
\* FAILURE (never ERROR) and the last-error text is non-empty.
C5_TestConnectionIff ==
    call.op = "TestConnection"
    => /\ status = <<UC_SUCCESS>>
            <=> (Contains(CapturedOutput, TokPython) /\ CliPy \in DOMAIN files)
       /\ status # <<UC_SUCCESS>>
            => (status = <<UC_FAILURE>> /\ GetLastError # <<>>)

\* the probe could not be spawned although cli.py is present
C5_Witness ==
    /\ call.op = "TestConnection"
    /\ ~call.env.spawnOk
    /\ CliPy \in DOMAIN files
    /\ status = <<UC_FAILURE>>

----------------------------------------------------------------------------
(* C6 *)

\* "Size: N bytes" for the sizes of the model
ClaimedInfo(n) ==
    IF n = 7 THEN <<"S","i","z","e",":"," ","7"," ","b","y","t","e","s">>
    ELSE <<"S","i","z","e",":"," ","1","2"," ","b","y","t","e","s">>

\* C6: GetFileInfo returns ERROR and leaves the buffer alone when the path or
\* the buffer is null, the capacity is not positive or the file is missing;
\* it writes exactly "Size: N bytes" and returns SUCCESS when the file exists
\* and the text with its terminator fits; it never writes more than capacity
\* bytes.
C6_GetFileInfoContract ==
    call.op = "GetFileInfo"
    => /\ (\/ call.filePath = NULL
           \/ call.infoBufferIsNull
           \/ call.bufferSize <= 0
           \/ ~call.preIn)
          => (status = <<UC_ERROR>> /\ infoBuffer = BufInit)
       /\ (/\ call.filePath # NULL
           /\ ~call.infoBufferIsNull
           /\ call.preIn
           /\ Len(ClaimedInfo(files[call.filePath])) + 1 <= call.bufferSize)
          => (status = <<UC_SUCCESS>> /\ infoBuffer = ClaimedInfo(files[call.filePath]))
       /\ call.written <= (IF call.bufferSize > 0 THEN call.bufferSize ELSE 0)

----------------------------------------------------------------------------
(* C7 *)

\* the format pair each wrapper is named after, in the tokens of the
\* supported-format lists
ClaimedFormats ==
    [ConvertPDFToText |-> <<pdf, txt>>,
     ConvertPDFToMarkdown |-> <<pdf, md>>,
     ConvertDOCXToText |-> <<docx, txt>>,
     ConvertDOCXToMarkdown |-> <<docx, md>>,
     ConvertMarkdownToHTML |-> <<md, html>>,
     ConvertHTMLToMarkdown |-> <<html, md>>,
     ConvertRTFToText |-> <<rtf, txt>>,
     ConvertRTFToMarkdown |-> <<rtf, md>>]

\* C7: a step that calls one of the eight wrappers ends with the status,
\* last-error text, spawned command and filesystem that ConvertDocument
\* yields from the same starting state, paths and environment with the
\* format pair the wrapper is named after.
C7_WrapperEqualsConvertDocument ==
    [][call'.op \in WrapperNames
        => LET direct == ConvertDocument(g_lastError, files, BufInit,
                                         call'.inputFile, call'.outputFile,
                                         ClaimedFormats[call'.op][1],
                                         ClaimedFormats[call'.op][2],
                                         call'.env, terminated')
           IN  /\ status' = direct.status
               /\ g_lastError' = direct.err
               /\ spawned' = direct.spawned
               /\ files' = direct.fs]_vars

\* a wrapper ran the tool, which created the output file
C7_Witness ==
    /\ call.op = "ConvertMarkdownToHTML"
    /\ spawned # <<>>
    /\ Contains(spawned[1], CmdTypeFlag \o html)
    /\ call.env.effect.kind = "create"
    /\ status = <<UC_SUCCESS>>

----------------------------------------------------------------------------
(* C8 *)

ClaimedBatchMessage ==
    <<"B","a","t","c","h"," ","c","o","n","v","e","r","s","i","o","n"," ","n","o","t"," ","y","e","t"," ","i","m","p","l","e","m","e","n","t","e","d">>

\* C8: a step that calls ConvertBatch returns ERROR, leaves exactly the
\* message "Batch conversion not yet implemented", passes no command to
\* _popen and leaves the filesystem as it was, for all arguments and from
\* every state.
C8_BatchNotImplemented ==
    [][call'.op = "ConvertBatch"
        => /\ status' = <<UC_ERROR>>
           /\ g_lastError' = ClaimedBatchMessage
           /\ spawned' = <<>>
           /\ files' = files
           /\ ~terminated']_vars

\* ConvertBatch was called with two existing paths
C8_Witness ==
    /\ call.op = "ConvertBatch"
    /\ call.preIn
    /\ call.preOut
    /\ status = <<UC_ERROR>>

----------------------------------------------------------------------------
(* C9 *)

\* C9: every status-returning entry point overwrites the last-error text
\* when it starts: the text a call leaves is the text the same call leaves
\* when it starts from the empty text, so no earlier text stays visible.
C9_ErrorTextOverwritten ==
    [][call'.op # "none"
        => g_lastError' = ResultOf(call', <<>>, files, terminated').err]_vars

----------------------------------------------------------------------------
(* C10 *)

\* C10: whenever ConvertDocument returns SUCCESS the last-error text is
\* empty.
C10_SuccessHasNoErrorText ==
    (call.op = "ConvertDocument" /\ status = <<UC_SUCCESS>>)
    => GetLastError = <<>>

====
